---- MODULE Spec2Model ----
(***************************************************************************)
(* QpSplineStBoundaryMapper                                                *)
(* (modules/planning/optimizer/qp_spline_st_speed/                         *)
(*  qp_spline_st_boundary_mapper.cc).                                      *)
(*                                                                         *)
(* Stations (s) and times (t) are doubles in the source; here they are     *)
(* integers in one common unit, so every sum, difference, fmax/fmin and    *)
(* comparison is computed as the source computes it.  An STPoint is the    *)
(* pair <<s, t>>.  Indices into the path are 0-based as in the source.     *)
(***************************************************************************)
EXTENDS Integers, Sequences, FiniteSets, TLC

VARIABLES
    obs_boundary,     \* the caller's std::vector<StGraphBoundary>
    entry_boundary,   \* history: obs_boundary as it was when the running/last call was entered
    op,               \* the member function called last
    args,             \* its arguments
    ret,              \* its Status, "none" while it runs or if it never returned
    pc,               \* "idle" | "outer" | "inner" | "returned" | "crashed"
    stage,            \* "main" until a main decision has been mapped, then "objects"
    i, j,             \* loop counters of map_obstacle_with_prediction_trajectory
    trajectory,       \* index the reference `trajectory` is bound to (line 259)
    lower_points, upper_points, boundary_points, skip,
    low, high, find_low, find_high,
    scanned,          \* history: the overlap scan ran in the last step
    iterations        \* history: runs of the per-sample loop body since `trajectory`
                      \* was bound, counted up to MaxSamples + 1

vars == << obs_boundary, entry_boundary, op, args, ret, pc, stage, i, j, trajectory,
           lower_points, upper_points, boundary_points, skip,
           low, high, find_low, find_high, scanned, iterations >>

-----------------------------------------------------------------------------
(* Bounds of the model *)

\* trajectories per obstacle
MaxTraj == 2
\* samples per predicted trajectory
MaxSamples == 2
\* path points handed to the mapper
MaxPathPoints == 3
\* elements a std::vector holds before its growth fails (std::bad_alloc)
Capacity == 3

\* uint32_t i wraps modulo 2^32; the modulus is reduced, above every trajectory index
CounterMod == MaxTraj + 2

-----------------------------------------------------------------------------
(* Configuration read by the mapper (gflags, st_boundary_config, vehicle_param) *)

FLAGS_backward_routing_distance == 2
FLAGS_decision_valid_stop_range == 1
front_edge_to_center == 1
boundary_buffer == 1
follow_buffer == 1
point_extension == 1
minimal_follow_time == 1
success_tunnel == 4
DefaultCharacteristicLength == 1

-----------------------------------------------------------------------------
(* Helpers *)

fmax(a, b) == IF a >= b THEN a ELSE b
fmin(a, b) == IF a <= b THEN a ELSE b
fabs(a) == IF a < 0 THEN -a ELSE a

\* Double::compare(a, b), declared in modules/planning/math/double.h: sign of a - b
Double_compare(a, b) == IF a < b THEN -1 ELSE IF a > b THEN 1 ELSE 0

STPoint(s, t) == << s, t >>
S(p) == p[1]
T(p) == p[2]

RECURSIVE AreaSum(_, _)
AreaSum(pts, k) ==
    IF k > Len(pts) THEN 0
    ELSE LET p == pts[k]
             q == pts[(k % Len(pts)) + 1]
         IN  (T(p) * S(q) - T(q) * S(p)) + AreaSum(pts, k + 1)

\* get_area is declared outside this source file: the signed area of the ordered vertex
\* sequence, here in half units (twice the area, so that it stays integral).  The orientation (s_lo,t_lo), (s_lo,t_hi), (s_hi,t_hi),
\* (s_hi,t_lo) of the Stop quadrilateral is the positive one.
get_area(pts) == IF Len(pts) < 3 THEN 0 ELSE AreaSum(pts, 1)

StGraphBoundary(points, type, clen, decision) ==
    [ points |-> points, boundary_type |-> type,
      characteristic_length |-> clen, decision |-> decision ]

-----------------------------------------------------------------------------
(* get_graph_boundary, lines 51-139 *)

\* Outcomes of a call: the Status returned ("CRASH": the process dies) and the container.
\* Line 57 tests `if (obs_boundary)`: a non-null container is rejected.  With a null
\* container and both other checks passed, line 77 calls clear() through the null
\* pointer: undefined behaviour; the build may crash or return either Status, and there
\* is no container to change.
get_graph_boundary_clear_first(in, container) ==
    IF ~in.null_out
    THEN { [ret |-> "PLANNING_ERROR", out |-> << >>] }
    ELSE IF in.planning_time < 0
    THEN { [ret |-> "PLANNING_ERROR", out |-> container] }
    ELSE IF in.num_of_points < 2
    THEN { [ret |-> "PLANNING_ERROR", out |-> container] }
    ELSE { [ret |-> r, out |-> container] : r \in {"CRASH", "OK", "PLANNING_ERROR"} }

get_graph_boundary(in, container) ==
    IF ~in.null_out
    THEN { [ret |-> "PLANNING_ERROR", out |-> container] }
    ELSE IF in.planning_time < 0
    THEN { [ret |-> "PLANNING_ERROR", out |-> container] }
    ELSE IF in.num_of_points < 2
    THEN { [ret |-> "PLANNING_ERROR", out |-> container] }
    ELSE { [ret |-> r, out |-> container] : r \in {"CRASH", "OK", "PLANNING_ERROR"} }

-----------------------------------------------------------------------------
(* map_main_decision_stop, lines 141-195 *)

StopRearCenterS(in) ==
    (in.sl_s - FLAGS_backward_routing_distance)
        - FLAGS_decision_valid_stop_range - front_edge_to_center

StopBeyondHorizon_strict(stop_rear_center_s, length) ==
    /\ ~(Double_compare(stop_rear_center_s, 0) < 0)
    /\ stop_rear_center_s > length - FLAGS_backward_routing_distance

\* lines 161-174: the horizon test sits in the else branch of the "behind adc" test
StopBeyondHorizon(stop_rear_center_s, length) ==
    /\ ~(Double_compare(stop_rear_center_s, 0) < 0)
    /\ stop_rear_center_s >= length - FLAGS_backward_routing_distance

StopSMin(stop_rear_center_s) == IF stop_rear_center_s > 0 THEN stop_rear_center_s ELSE 0
StopSMax(s_min, in) == fmax(s_min + 1, fmax(in.planning_distance, in.length))

\* lines 179-184
StopPoints(s_min, s_max, planning_time) ==
    << STPoint(s_min, 0), STPoint(s_min, planning_time),
       STPoint(s_max + boundary_buffer, planning_time), STPoint(s_max, 0) >>

StopAreaSkip_strict(area) == Double_compare(area, 0) < 0

\* line 187
StopAreaSkip(area) == Double_compare(area, 0) <= 0

\* [ret, out, points]; ret = "BAD_ALLOC" when emplace_back cannot grow the vector
map_main_decision_stop(in, container) ==
    IF ~in.frenet_ok
    THEN [ret |-> "PLANNING_ERROR", out |-> container, points |-> << >>]
    ELSE LET stop_rear_center_s == StopRearCenterS(in) IN
         IF StopBeyondHorizon(stop_rear_center_s, in.length)
         THEN [ret |-> "PLANNING_SKIP", out |-> container, points |-> << >>]
         ELSE LET s_min == StopSMin(stop_rear_center_s)
                  s_max == StopSMax(s_min, in)
                  pts == StopPoints(s_min, s_max, in.planning_time)
              IN  IF StopAreaSkip(get_area(pts))
                  THEN [ret |-> "PLANNING_SKIP", out |-> container, points |-> pts]
                  ELSE IF Len(container) >= Capacity
                  THEN [ret |-> "BAD_ALLOC", out |-> container, points |-> pts]
                  ELSE [ret |-> "OK", points |-> pts,
                        out |-> Append(container,
                                   StGraphBoundary(pts, "STOP", boundary_buffer, "STOP"))]

-----------------------------------------------------------------------------
(* map_mission_complete, lines 205-230 *)

MissionSMin == success_tunnel
MissionSMax(in) ==
    fmin(in.planning_distance, in.length - FLAGS_backward_routing_distance)

\* lines 214-219
MissionPoints(s_min, s_max, planning_time) ==
    << STPoint(s_min, 0), STPoint(s_max, 0),
       STPoint(s_max + boundary_buffer, planning_time), STPoint(s_min, planning_time) >>

\* line 222
MissionAreaSkip(area) == Double_compare(area, 0) <= 0

\* line 228
MissionBoundaryType == "STOP"

map_mission_complete(in, container) ==
    LET pts == MissionPoints(MissionSMin, MissionSMax(in), in.planning_time) IN
    IF MissionAreaSkip(get_area(pts))
    THEN [ret |-> "PLANNING_SKIP", out |-> container, points |-> pts]
    ELSE IF Len(container) >= Capacity
    THEN [ret |-> "BAD_ALLOC", out |-> container, points |-> pts]
    ELSE [ret |-> "OK", points |-> pts,
          out |-> Append(container,
                     StGraphBoundary(pts, MissionBoundaryType, boundary_buffer,
                                     "MISSION_COMPLETE"))]

-----------------------------------------------------------------------------
(* map_obstacle_with_prediction_trajectory, lines 232-372 *)

\* lines 243-248
follow_distance(in) ==
    IF in.decision.kind = "follow"
    THEN fmax(in.speed * minimal_follow_time, fabs(in.decision.distance_s))
             + front_edge_to_center
    ELSE -1

\* check_overlap(adc_path_points[k], vehicle_param(), obs_box, boundary_buffer): whether
\* the buffered vehicle footprint at path point k meets the obstacle's expanded box.
\* The geometry is the collaborator's; the call's input names the points that overlap.
check_overlap(in, k) == k \in in.overlap

\* lines 276-296: the converging scan, one recursion per iteration of the while loop
RECURSIVE Scan(_, _, _, _, _)
Scan(in, lo, hi, fl, fh) ==
    IF ~(lo < hi) \/ (fl /\ fh)
    THEN [low |-> lo, high |-> hi, find_low |-> fl, find_high |-> fh]
    ELSE LET lo2 == IF ~fl /\ ~check_overlap(in, lo) THEN lo + 1 ELSE lo
             fl2 == IF fl THEN TRUE ELSE check_overlap(in, lo)
             hi2 == IF ~fh /\ ~check_overlap(in, hi) THEN hi - 1 ELSE hi
             fh2 == IF fh THEN TRUE ELSE check_overlap(in, hi)
         IN  Scan(in, lo2, hi2, fl2, fh2)

\* lines 272-275
OverlapLocator(in) == Scan(in, 0, in.num_of_points - 1, FALSE, FALSE)

\* adc_path_points[k].s()
PathS(in, k) == in.path[k + 1]

\* lines 263-265: relative_time + start_timestamp - VehicleState timestamp; sample jj of
\* a trajectory has relative time jj, start_timestamp is taken relative to the vehicle's
TrajectoryPointTime(in, jj) == jj + in.start_timestamp

\* lines 310-321
EnvelopePolygon(lower, upper) ==
    << STPoint(S(lower[1]) - follow_buffer, T(lower[1])),
       STPoint(S(lower[Len(lower)]) - follow_buffer, T(lower[Len(lower)])),
       STPoint(S(upper[Len(upper)]) + follow_buffer + boundary_buffer, T(upper[Len(upper)])),
       STPoint(S(upper[1]) + follow_buffer, T(upper[1])) >>

\* lines 330-336
FollowAdjust(pts, fd) ==
    << STPoint(S(pts[1]) - fd, T(pts[1])), STPoint(S(pts[2]) - fd, T(pts[2])),
       pts[3], STPoint(S(pts[4]), -1) >>

\* lines 338-353: the second vertex is computed from the first one's new value
YieldAdjust(pts, dis) ==
    LET s0 == IF S(pts[1]) - dis < 0 THEN fmax(S(pts[1]) - 2, 0)
                                     ELSE fmax(S(pts[1]) - dis, 0)
        s1 == IF S(pts[2]) - dis < 0 THEN fmax(s0 - 4, 0)
                                     ELSE fmax(s0 - dis, 0)
    IN  << STPoint(s0, T(pts[1])), STPoint(s1, T(pts[2])), pts[3], pts[4] >>

\* lines 356-358
OvertakeAdjust(pts, dis) ==
    << pts[1], pts[2], STPoint(S(pts[3]) + dis, T(pts[3])),
       STPoint(S(pts[4]) + dis, T(pts[4])) >>

\* lines 327-359
AdjustForDecision(in, pts) ==
    IF in.decision.kind = "follow" THEN FollowAdjust(pts, follow_distance(in))
    ELSE IF in.decision.kind = "yield" THEN YieldAdjust(pts, fabs(in.decision.distance_s))
    ELSE IF in.decision.kind = "overtake"
    THEN OvertakeAdjust(pts, fabs(in.decision.distance_s))
    ELSE pts

\* b_type, lines 328-359: the overtake branch assigns none
DynamicBoundaryType(kind) ==
    IF kind = "follow" THEN "FOLLOW"
    ELSE IF kind = "yield" THEN "YIELD"
    ELSE "UNKNOWN"

DecisionType(kind) ==
    IF kind = "follow" THEN "FOLLOW"
    ELSE IF kind = "yield" THEN "YIELD"
    ELSE "OVERTAKE"

\* line 362
DynamicAreaAccept(area) == Double_compare(area, 0) > 0

\* One iteration of the per-sample loop body, lines 261-367, on the locals it reads.
\* bad_alloc: an emplace_back could not grow its vector.
SampleStep(in, jj, lower, upper, points, container) ==
    LET t == TrajectoryPointTime(in, jj)
        sc == OverlapLocator(in)
        found == sc.find_high /\ sc.find_low
    IN  IF found /\ Len(lower) >= Capacity
        THEN [bad_alloc |-> TRUE, scan |-> sc, lower |-> lower, upper |-> upper,
              points |-> points, out |-> container, appended |-> FALSE]
        ELSE
        LET lp == IF found
                  THEN Append(lower, STPoint(PathS(in, sc.low) - point_extension, t))
                  ELSE lower
            up == IF found
                  THEN Append(upper, STPoint(PathS(in, sc.high) + point_extension, t))
                  ELSE upper
        IN  IF Len(lp) > 0
            THEN LET pts == AdjustForDecision(in, EnvelopePolygon(lp, up)) IN
                 IF DynamicAreaAccept(get_area(pts))
                 THEN IF Len(container) >= Capacity
                      THEN [bad_alloc |-> TRUE, scan |-> sc, lower |-> lp, upper |-> up,
                            points |-> pts, out |-> container, appended |-> FALSE]
                      ELSE [bad_alloc |-> FALSE, scan |-> sc, lower |-> lp, upper |-> up,
                            points |-> pts, appended |-> TRUE,
                            out |-> Append(container,
                                       StGraphBoundary(pts,
                                           DynamicBoundaryType(in.decision.kind),
                                           DefaultCharacteristicLength,
                                           DecisionType(in.decision.kind)))]
                 ELSE [bad_alloc |-> FALSE, scan |-> sc, lower |-> lp, upper |-> up,
                       points |-> pts, out |-> container, appended |-> FALSE]
            ELSE [bad_alloc |-> FALSE, scan |-> sc, lower |-> lp, upper |-> up,
                  points |-> points, out |-> container, appended |-> FALSE]

-----------------------------------------------------------------------------
(* Inputs of the calls *)

PlanningTimes == {-1, 0, 2}
\* the builders run after the checks of lines 63-75: planning_time >= 0
ValidPlanningTimes == { t \in PlanningTimes : t >= 0 }
PlanningDistances == {1, 6}
ReferenceLineLengths == {1, 4, 8}
\* station of the stop line projected on the reference line
StopLineStations == {3, 6}
DistanceS == {-5, 1}
Speeds == {4}
StartTimestamps == {-3, 1}

StopInputs ==
    [ frenet_ok : BOOLEAN, sl_s : StopLineStations, length : ReferenceLineLengths,
      planning_distance : PlanningDistances, planning_time : ValidPlanningTimes ]

MissionInputs ==
    [ length : ReferenceLineLengths, planning_distance : PlanningDistances,
      planning_time : ValidPlanningTimes ]

MapperInputs ==
    [ null_out : BOOLEAN, planning_time : PlanningTimes,
      num_of_points : 0 .. MaxPathPoints,
      main_decision : {"none", "stop", "mission_complete"},
      num_obstacles : {0, 1} ]

\* path points lie 5 apart: s = 0, 5, 10, ...
PathOf(n) == [ k \in 1 .. n |-> 5 * (k - 1) ]

\* num_of_points of each predicted trajectory of the obstacle: a trajectory is empty,
\* holds one sample, or holds MaxSamples samples
TrajectorySizes ==
    UNION { [ 1 .. n -> {0, 1, MaxSamples} ] : n \in 0 .. MaxTraj }

ObjectDecisions ==
    [ kind : {"follow", "yield", "overtake"}, distance_s : DistanceS ]

ObstacleInputs ==
    [ speed : Speeds, decision : ObjectDecisions, start_timestamp : StartTimestamps,
      sizes : TrajectorySizes, num_of_points : {MaxPathPoints},
      path : {PathOf(MaxPathPoints)}, overlap : SUBSET (0 .. MaxPathPoints - 1) ]

-----------------------------------------------------------------------------
(* State machine *)

NoArgs == [ none |-> TRUE ]

LocalsReset ==
    /\ i' = 0 /\ j' = 0 /\ trajectory' = 0
    /\ lower_points' = << >> /\ upper_points' = << >>
    /\ skip' = TRUE
    /\ low' = 0 /\ high' = 0 /\ find_low' = FALSE /\ find_high' = FALSE
    /\ scanned' = FALSE /\ iterations' = 0

Init ==
    /\ obs_boundary = << >> /\ entry_boundary = << >>
    /\ op = "none" /\ args = NoArgs /\ ret = "none" /\ pc = "idle" /\ stage = "main"
    /\ i = 0 /\ j = 0 /\ trajectory = 0
    /\ lower_points = << >> /\ upper_points = << >> /\ boundary_points = << >>
    /\ skip = TRUE
    /\ low = 0 /\ high = 0 /\ find_low = FALSE /\ find_high = FALSE
    /\ scanned = FALSE /\ iterations = 0

\* A builder that returned r: Status, container and the polygon it built
Returned(name, in, r) ==
    /\ op' = name /\ args' = in
    /\ entry_boundary' = obs_boundary
    /\ obs_boundary' = r.out
    /\ boundary_points' = r.points
    /\ ret' = IF r.ret = "BAD_ALLOC" THEN "none" ELSE r.ret
    /\ pc' = IF r.ret = "BAD_ALLOC" THEN "crashed" ELSE "returned"
    /\ LocalsReset

\* the public entry point
GetGraphBoundary ==
    /\ pc = "idle"
    /\ \E in \in MapperInputs :
         \E o \in get_graph_boundary(in, obs_boundary) :
            /\ op' = "get_graph_boundary" /\ args' = in
            /\ entry_boundary' = obs_boundary
            /\ obs_boundary' = o.out
            /\ boundary_points' = << >>
            /\ ret' = IF o.ret = "CRASH" THEN "none" ELSE o.ret
            /\ pc' = IF o.ret = "CRASH" THEN "crashed" ELSE "returned"
            /\ LocalsReset
    /\ UNCHANGED stage

\* The builders are private and line 57 keeps get_graph_boundary from reaching its
\* dispatch with a container; they are run here on the container directly, in the
\* order of the dispatch of lines 80-137: at most one main decision (Stop or
\* MissionComplete), then the decisions of the obstacles.
MapMainDecisionStop ==
    /\ pc = "idle" /\ stage = "main"
    /\ \E in \in StopInputs :
         Returned("map_main_decision_stop", in, map_main_decision_stop(in, obs_boundary))
    /\ stage' = "objects"

MapMissionComplete ==
    /\ pc = "idle" /\ stage = "main"
    /\ \E in \in MissionInputs :
         Returned("map_mission_complete", in, map_mission_complete(in, obs_boundary))
    /\ stage' = "objects"

\* lines 197-203 and 374-380: both return OK and touch nothing
map_obstacle_noop(container) == [ret |-> "OK", out |-> container, points |-> << >>]

MapObstacleWithPlanning ==
    /\ pc = "idle"
    /\ Returned("map_obstacle_with_planning", NoArgs, map_obstacle_noop(obs_boundary))
    /\ stage' = "objects"

MapObstacleWithoutTrajectory ==
    /\ pc = "idle"
    /\ Returned("map_obstacle_without_trajectory", NoArgs, map_obstacle_noop(obs_boundary))
    /\ stage' = "objects"

\* lines 238-256: entry of map_obstacle_with_prediction_trajectory
PredictionCall ==
    /\ pc = "idle"
    /\ \E in \in ObstacleInputs :
         /\ op' = "map_obstacle_with_prediction_trajectory" /\ args' = in
    /\ entry_boundary' = obs_boundary
    /\ ret' = "none"
    /\ pc' = "outer"
    /\ stage' = "objects"
    /\ boundary_points' = << >>
    /\ LocalsReset
    /\ UNCHANGED obs_boundary

\* line 258, condition true; line 259 binds `trajectory`; line 260 initialises j
PredictionOuterEnter ==
    /\ pc = "outer"
    /\ i < Len(args.sizes)
    /\ trajectory' = i
    /\ j' = 0
    /\ pc' = "inner"
    /\ scanned' = FALSE /\ iterations' = 0
    /\ UNCHANGED << obs_boundary, entry_boundary, op, args, ret, stage, i,
                    lower_points, upper_points, boundary_points, skip,
                    low, high, find_low, find_high >>

\* line 258, condition false; lines 370-371
PredictionReturn ==
    /\ pc = "outer"
    /\ ~(i < Len(args.sizes))
    /\ ret' = IF skip THEN "PLANNING_SKIP" ELSE "OK"
    /\ pc' = "returned"
    /\ scanned' = FALSE
    /\ UNCHANGED << obs_boundary, entry_boundary, op, args, stage, i, j, trajectory,
                    lower_points, upper_points, boundary_points, skip,
                    low, high, find_low, find_high, iterations >>

\* increment of line 260: `++i`, the outer loop's counter; j is never changed
InnerIncrement == (i + 1) % CounterMod

\* line 260, condition true; the body, lines 261-367; then the increment of line 260
PredictionSample ==
    /\ pc = "inner"
    /\ j < args.sizes[trajectory + 1]
    /\ LET r == SampleStep(args, j, lower_points, upper_points, boundary_points,
                           obs_boundary)
       IN  /\ low' = r.scan.low /\ high' = r.scan.high
           /\ find_low' = r.scan.find_low /\ find_high' = r.scan.find_high
           /\ lower_points' = r.lower /\ upper_points' = r.upper
           /\ boundary_points' = r.points
           /\ obs_boundary' = r.out
           /\ skip' = IF r.appended THEN FALSE ELSE skip
           /\ pc' = IF r.bad_alloc THEN "crashed" ELSE "inner"
           /\ i' = IF r.bad_alloc THEN i ELSE InnerIncrement
    /\ scanned' = TRUE
    /\ iterations' = fmin(iterations + 1, MaxSamples + 1)
    /\ UNCHANGED << entry_boundary, op, args, ret, stage, j, trajectory >>

\* line 260, condition false; then the increment of line 258
PredictionInnerExit ==
    /\ pc = "inner"
    /\ ~(j < args.sizes[trajectory + 1])
    /\ i' = (i + 1) % CounterMod
    /\ pc' = "outer"
    /\ scanned' = FALSE
    /\ UNCHANGED << obs_boundary, entry_boundary, op, args, ret, stage, j, trajectory,
                    lower_points, upper_points, boundary_points, skip,
                    low, high, find_low, find_high, iterations >>

\* The caller takes the Status; the call's arguments and locals are gone.
Resume ==
    /\ pc = "returned"
    /\ pc' = "idle"
    /\ op' = "none" /\ args' = NoArgs /\ ret' = "none"
    /\ boundary_points' = << >>
    /\ entry_boundary' = obs_boundary
    /\ LocalsReset
    /\ UNCHANGED << obs_boundary, stage >>

\* the steps of a running call
PredictionRun ==
    \/ PredictionOuterEnter
    \/ PredictionReturn
    \/ PredictionSample
    \/ PredictionInnerExit

Next ==
    \/ GetGraphBoundary
    \/ MapMainDecisionStop
    \/ MapMissionComplete
    \/ MapObstacleWithPlanning
    \/ MapObstacleWithoutTrajectory
    \/ PredictionCall
    \/ PredictionRun
    \/ Resume

Spec == Init /\ [][Next]_vars

-----------------------------------------------------------------------------
(* Properties *)

MapperReturned == op = "get_graph_boundary" /\ pc = "returned"
StopReturned == op = "map_main_decision_stop" /\ pc = "returned"
MissionReturned == op = "map_mission_complete" /\ pc = "returned"
PredictionRunning ==
    op = "map_obstacle_with_prediction_trajectory" /\ pc \in {"outer", "inner"}
SampleDone ==
    op = "map_obstacle_with_prediction_trajectory" /\ pc = "inner" /\ scanned

PreconditionViolated(in) == in.planning_time < 0 \/ in.num_of_points < 2

\* C1: with a non-null output container, get_graph_boundary returns PLANNING_ERROR
\* exactly when planning_time < 0 or the path has fewer than 2 points; with no main
\* decision and no obstacle it returns OK otherwise.
C1_ErrorIffPreconditionViolated ==
    (MapperReturned /\ ~args.null_out) =>
        /\ (ret = "PLANNING_ERROR") <=> PreconditionViolated(args)
        /\ (~PreconditionViolated(args) /\ args.main_decision = "none"
               /\ args.num_obstacles = 0) => ret = "OK"

\* C2: every boundary in the output list has a strictly positive signed area.
C2_PositiveArea ==
    \A k \in 1 .. Len(obs_boundary) : get_area(obs_boundary[k].points) > 0

\* C2 witness: the list holds a boundary appended by the Stop builder and one appended
\* by the dynamic builder
C2_Witness ==
    /\ \E k \in 1 .. Len(obs_boundary) : obs_boundary[k].decision = "STOP"
    /\ \E k \in 1 .. Len(obs_boundary) : obs_boundary[k].decision = "FOLLOW"

\* C3 as stated: a call that returns a precondition error (planning_time < 0 or fewer
\* than 2 path points) leaves the output list empty.
C3_EmptyOnPreconditionError ==
    (MapperReturned /\ ~args.null_out /\ ret = "PLANNING_ERROR"
        /\ PreconditionViolated(args)) => obs_boundary = << >>

\* C3 amended: a call that returns a precondition error leaves the output list exactly
\* as it was at entry (the list is cleared only after the checks have passed).
C3_UnchangedOnPreconditionError ==
    (MapperReturned /\ ~args.null_out /\ ret = "PLANNING_ERROR"
        /\ PreconditionViolated(args)) => obs_boundary = entry_boundary

\* C3 witness: a call with a negative planning_time has returned its error and the
\* list still holds a boundary of an earlier call
C3_Witness ==
    /\ MapperReturned /\ ~args.null_out /\ ret = "PLANNING_ERROR"
    /\ args.planning_time < 0
    /\ obs_boundary # << >>

BeyondHorizon(in) ==
    StopRearCenterS(in) >= in.length - FLAGS_backward_routing_distance

\* C4 as stated: for every stop_rear_center_s, negative ones included, a stop line at
\* or beyond length - backward_routing_distance makes the Stop builder return Skip
\* and append nothing.
C4_SkipBeyondHorizon ==
    (StopReturned /\ args.frenet_ok /\ BeyondHorizon(args)) =>
        (ret = "PLANNING_SKIP" /\ obs_boundary = entry_boundary)

\* C4 amended: the same for every stop_rear_center_s that is not negative.
C4_SkipBeyondHorizonNonNegative ==
    (StopReturned /\ args.frenet_ok /\ BeyondHorizon(args)
        /\ StopRearCenterS(args) >= 0) =>
        (ret = "PLANNING_SKIP" /\ obs_boundary = entry_boundary)

\* C4 witness: a stop line at or beyond the horizon, not behind the vehicle, with a
\* planning_time for which the quadrilateral would have positive area, was skipped
C4_Witness ==
    /\ StopReturned /\ args.frenet_ok /\ BeyondHorizon(args)
    /\ StopRearCenterS(args) >= 0
    /\ args.planning_time > 0
    /\ ret = "PLANNING_SKIP"

\* C5: the per-sample loop runs a bounded number of iterations: for a trajectory of n
\* samples its body runs at most n times (and so the call comes to its return).
C5_BoundedIterations ==
    (op = "map_obstacle_with_prediction_trajectory" /\ pc \in {"inner", "crashed"}) =>
        iterations <= args.sizes[trajectory + 1]

\* C6: every boundary in the output list carries the BoundaryType of the decision it
\* was built for.
C6_TypeOfDecision ==
    \A k \in 1 .. Len(obs_boundary) :
        obs_boundary[k].boundary_type = obs_boundary[k].decision

\* C7: after the Yield adjustment, with b = v0.s before it and dis = |distance_s|,
\* v0.s and v1.s both equal max(b - 2, 0) if b - dis < 0 and max(b - dis, 0) otherwise.
C7_YieldFromFirstVertex ==
    (SampleDone /\ args.decision.kind = "yield" /\ Len(lower_points) > 0) =>
        LET b == S(lower_points[1]) - follow_buffer
            dis == fabs(args.decision.distance_s)
            e == IF b - dis < 0 THEN fmax(b - 2, 0) ELSE fmax(b - dis, 0)
        IN  S(boundary_points[1]) = e /\ S(boundary_points[2]) = e

\* C8: the Mission-Complete builder builds the Stop builder's ordered quadrilateral
\* (s_min,0), (s_min,T), (s_max+buffer,T), (s_max,0) from its own s_min and s_max, and
\* skips exactly when the Stop builder's area test on it does.
C8_SameQuadrilateral ==
    MissionReturned =>
        LET pts == StopPoints(MissionSMin, MissionSMax(args), args.planning_time)
        IN  /\ boundary_points = pts
            /\ (ret = "PLANNING_SKIP") <=> StopAreaSkip(get_area(pts))

\* The single-pass variant of C9: the envelopes are accumulated over a whole
\* trajectory, and one quadrilateral is built, adjusted, area-checked and appended
\* after its last sample.
RECURSIVE SinglePassSamples(_, _, _, _, _)
SinglePassSamples(in, jj, n, lower, upper) ==
    IF jj >= n THEN [lower |-> lower, upper |-> upper]
    ELSE LET sc == OverlapLocator(in)
             t == TrajectoryPointTime(in, jj)
         IN  IF sc.find_high /\ sc.find_low
             THEN SinglePassSamples(in, jj + 1, n,
                      Append(lower, STPoint(PathS(in, sc.low) - point_extension, t)),
                      Append(upper, STPoint(PathS(in, sc.high) + point_extension, t)))
             ELSE SinglePassSamples(in, jj + 1, n, lower, upper)

RECURSIVE SinglePass(_, _, _, _, _)
SinglePass(in, k, lower, upper, out) ==
    IF k > Len(in.sizes) THEN out
    ELSE LET e == SinglePassSamples(in, 0, in.sizes[k], lower, upper)
             pts == AdjustForDecision(in, EnvelopePolygon(e.lower, e.upper))
         IN  IF Len(e.lower) > 0 /\ DynamicAreaAccept(get_area(pts))
             THEN SinglePass(in, k + 1, e.lower, e.upper,
                      Append(out, StGraphBoundary(pts,
                                      DynamicBoundaryType(in.decision.kind),
                                      DefaultCharacteristicLength,
                                      DecisionType(in.decision.kind))))
             ELSE SinglePass(in, k + 1, e.lower, e.upper, out)

AppendedByCall ==
    SubSeq(obs_boundary, Len(entry_boundary) + 1, Len(obs_boundary))

\* the loop body has run once for every sample of the obstacle's last trajectory
LastSampleRun ==
    /\ pc = "inner" /\ scanned
    /\ trajectory = Len(args.sizes) - 1
    /\ iterations >= args.sizes[trajectory + 1]

\* C9: for a Yield or Overtake decision the builder has appended exactly the boundaries
\* of the single-pass variant, once it has returned and already once it has run its
\* loop body for the last sample of the last trajectory.
C9_SameAsSinglePass ==
    (op = "map_obstacle_with_prediction_trajectory"
        /\ args.decision.kind \in {"yield", "overtake"}
        /\ (pc = "returned" \/ LastSampleRun))
        => AppendedByCall = SinglePass(args, 1, << >>, << >>, << >>)

SetMin(X) == CHOOSE x \in X : \A y \in X : x <= y
SetMax(X) == CHOOSE x \in X : \A y \in X : x >= y

\* C10: if some path point overlaps the obstacle at the sample, the scan finds both
\* indices, low the smallest overlapping index and high the largest.
C10_LocatorComplete ==
    (SampleDone /\ args.overlap # {}) =>
        /\ find_low /\ find_high
        /\ low = SetMin(args.overlap) /\ high = SetMax(args.overlap)

====
